---- MODULE Spec2Model ----
(***************************************************************************)
(* A model of the gosubsonic client (client.go, response.go, mock.go).     *)
(*                                                                         *)
(* A call of a public operation is two steps: the operation builds its URL *)
(* and issues http.Get (phase "Requesting"), then the transport answers    *)
(* and the rest of the handler runs to its end (phase "Succeeded",         *)
(* "Failed", or "Panicked" when a type assertion aborts the call).         *)
(*                                                                         *)
(* Spec is one caller using the client.  BuildSpec applies the loop bodies *)
(* that build one record from one decoded item (variable built).  ConcSpec *)
(* is several callers using one client at the same time (variable calls).  *)
(* MockSpec is the test setup: mockInit fills the package variable         *)
(* mockData for a client, then the tests call the operations.  body is the *)
(* state of the HTTP response body of the running call.                    *)
(*                                                                         *)
(* JSON values are tagged records, as encoding/json decodes them into      *)
(* interface{}: nil, bool, float64, string, []interface{} and              *)
(* map[string]interface{}.  Numbers are kept in tenths (v10) so that the   *)
(* float64 -> int64 conversion is a real truncation.  URLs and error       *)
(* texts are sequences of the string pieces the code concatenates.         *)
(***************************************************************************)
EXTENDS Integers, Sequences, FiniteSets, TLC

VARIABLES client, opname, args, url, phase, requests, pingCalls, reply, outcome,
          built, calls, mockData, body

vars == <<client, opname, args, url, phase, requests, pingCalls, reply, outcome,
          built, calls, mockData, body>>

(***************************************************************************)
(* Bounds of the model.                                                    *)
(***************************************************************************)
MaxItems == 2      \* longest array in a cardinality field
MaxGroups == 2     \* most index groups in a getIndexes response
MaxID == 0         \* largest id argument of a call
MaxCallers == 2    \* callers that use one client at the same time

(***************************************************************************)
(* Program constants.                                                      *)
(***************************************************************************)
CLIENT == "gosubsonic-git-master"
APIVERSION == "1.8.0"

(***************************************************************************)
(* JSON values.                                                            *)
(***************************************************************************)
JNull == [t |-> "null"]
JBool(b) == [t |-> "bool", b |-> b]
JNum(n) == [t |-> "num", v10 |-> n * 10]
JFrac(n10) == [t |-> "num", v10 |-> n10]
JStr(s) == [t |-> "str", s |-> s]
JArr(a) == [t |-> "arr", a |-> a]
JObj(o) == [t |-> "obj", o |-> o]

\* m[key] on a map[string]interface{}: a missing key reads as nil
Get(m, key) == IF key \in DOMAIN m.o THEN m.o[key] ELSE JNull

\* the comma-ok type assertions v.(float64), v.(string), v.(bool)
IsFloat64(v) == v.t = "num"
IsString(v) == v.t = "str"
IsBool(v) == v.t = "bool"
IsMap(v) == v.t = "obj"
IsSlice(v) == v.t = "arr"

\* mutant: the conversion rounds to the nearest integer
Int64Rounds(v) ==
    IF v.v10 >= 0 THEN (v.v10 + 5) \div 10 ELSE -((-v.v10 + 5) \div 10)

\* int64(f) for a float64 f: truncation toward zero
Int64(v) == IF v.v10 >= 0 THEN v.v10 \div 10 ELSE -((-v.v10) \div 10)

\* strconv.FormatInt(n, 10)
FormatInt(n) == ToString(n)

(***************************************************************************)
(* Values returned by the operations.                                      *)
(***************************************************************************)
NoErr == <<>>                                   \* the nil error
NilPtr == [isNil |-> TRUE]                      \* a nil pointer result
Ptr(v) == [isNil |-> FALSE, v |-> v]
NilSlice == [isNil |-> TRUE, elems |-> <<>>]    \* a nil slice
Slice(s) == [isNil |-> FALSE, elems |-> s]      \* make([]T, 0) and appends

Ret(result, err) == [panic |-> FALSE, result |-> result, err |-> err]
Panic == [panic |-> TRUE, result |-> NilPtr, err |-> NoErr]

NoClient == [Host |-> "", Username |-> "", Password |-> "", made |-> FALSE]
NoReply == [neterr |-> FALSE, none |-> TRUE]
NoOutcome == [panic |-> FALSE, none |-> TRUE]
NoBuilt == [none |-> TRUE]
NoCalls == <<>>
NoMockData == <<>>                              \* the nil map

(***************************************************************************)
(* makeURL and the query strings.                                          *)
(***************************************************************************)
makeURL(s, method) ==
    << "http://", s.Host, "/rest/", method, ".view?u=", s.Username,
       "&p=", s.Password, "&c=", CLIENT, "&v=", APIVERSION, "&f=json" >>

(***************************************************************************)
(* time.Parse("2006-01-02T15:04:05", value).  Chars gives the bytes of the *)
(* strings that occur as timestamps; the parser reads them one by one.     *)
(***************************************************************************)
Chars(s) ==
    CASE s = "2014-01-01T00:00:00" ->
           <<"2","0","1","4","-","0","1","-","0","1","T","0","0",":","0","0",":","0","0">>
      [] s = "2013-08-12T00:12:24" ->
           <<"2","0","1","3","-","0","8","-","1","2","T","0","0",":","1","2",":","2","4">>
      [] s = "2013-08-12T00:12:24Z" ->
           <<"2","0","1","3","-","0","8","-","1","2","T","0","0",":","1","2",":","2","4","Z">>
      [] s = "2013-02-30T00:12:24" ->
           <<"2","0","1","3","-","0","2","-","3","0","T","0","0",":","1","2",":","2","4">>
      [] s = "2013-08-12 00:12:24" ->
           <<"2","0","1","3","-","0","8","-","1","2"," ","0","0",":","1","2",":","2","4">>
      [] s = "" -> <<>>
      [] OTHER -> <<"?">>

TimeStrings ==
    { "2014-01-01T00:00:00", "2013-08-12T00:12:24", "2013-08-12T00:12:24Z",
      "2013-02-30T00:12:24", "2013-08-12 00:12:24", "" }

DigitChars == {"0","1","2","3","4","5","6","7","8","9"}

Digit(c) ==
    CASE c = "0" -> 0 [] c = "1" -> 1 [] c = "2" -> 2 [] c = "3" -> 3
      [] c = "4" -> 4 [] c = "5" -> 5 [] c = "6" -> 6 [] c = "7" -> 7
      [] c = "8" -> 8 [] c = "9" -> 9

\* the number written by the n digits of cs that start at position i
RECURSIVE Num(_, _, _)
Num(cs, i, n) ==
    IF n = 0 THEN 0 ELSE Num(cs, i, n - 1) * 10 + Digit(cs[i + n - 1])

AllDigits(cs, i, n) == \A k \in i .. (i + n - 1) : cs[k] \in DigitChars

IsLeap(y) == (y % 4 = 0) /\ ((y % 100 # 0) \/ (y % 400 = 0))

DaysIn(m, y) ==
    IF m = 2 THEN (IF IsLeap(y) THEN 29 ELSE 28)
    ELSE IF m \in {4, 6, 9, 11} THEN 30 ELSE 31

ZeroTime == [Y |-> 1, M |-> 1, D |-> 1, h |-> 0, m |-> 0, s |-> 0]

\* the layout has no zone: the instant is the written wall clock, in UTC;
\* text after the seconds ("extra text") is an error
ParseTime(value) ==
    LET cs == Chars(value)
        shape == /\ Len(cs) = 19
                 /\ AllDigits(cs, 1, 4) /\ cs[5] = "-"
                 /\ AllDigits(cs, 6, 2) /\ cs[8] = "-"
                 /\ AllDigits(cs, 9, 2) /\ cs[11] = "T"
                 /\ AllDigits(cs, 12, 2) /\ cs[14] = ":"
                 /\ AllDigits(cs, 15, 2) /\ cs[17] = ":"
                 /\ AllDigits(cs, 18, 2)
        t == [Y |-> Num(cs, 1, 4), M |-> Num(cs, 6, 2), D |-> Num(cs, 9, 2),
              h |-> Num(cs, 12, 2), m |-> Num(cs, 15, 2), s |-> Num(cs, 18, 2)]
    IN  IF shape /\ t.M \in 1 .. 12 /\ t.D \in 1 .. DaysIn(t.M, t.Y)
                 /\ t.h < 24 /\ t.m < 60 /\ t.s < 60
        THEN [t |-> t, err |-> NoErr]
        ELSE [t |-> ZeroTime, err |-> <<"parsing time ", value>>]

\* time.ParseDuration(strconv.FormatInt(n, 10) + "s"), in milliseconds
MillisPerSecond == 1000
ParseDuration(n) == [d |-> n * MillisPerSecond, err |-> NoErr]

(***************************************************************************)
(* json.Unmarshal into apiContainer, and the two fetch functions.          *)
(***************************************************************************)
ZeroAPIError == [Code |-> 0, Message |-> ""]

\* APIError{Code, Message} from the "error" member
DecodeAPIError(e) ==
    IF IsMap(e)
    THEN [Code |-> IF IsFloat64(Get(e, "code")) THEN Int64(Get(e, "code")) ELSE 0,
          Message |-> IF IsString(Get(e, "message")) THEN Get(e, "message").s ELSE ""]
    ELSE ZeroAPIError

\* License{DateRaw, Valid} from the "license" member
DecodeLicense(l) ==
    IF IsMap(l)
    THEN [DateRaw |-> IF IsString(Get(l, "date")) THEN Get(l, "date").s ELSE "",
          Valid |-> IF IsBool(Get(l, "valid")) THEN Get(l, "valid").b ELSE FALSE,
          Date |-> ZeroTime]
    ELSE [DateRaw |-> "", Valid |-> FALSE, Date |-> ZeroTime]

\* one Index{Name, ArtistRaw, Artist} from a member of "indexes"."index"
DecodeIndex(g) ==
    [Name |-> IF IsString(Get(g, "name")) THEN Get(g, "name").s ELSE "",
     ArtistRaw |-> Get(g, "artist"),
     Artist |-> NilSlice]

\* a struct member holding a JSON value of another kind is an
\* UnmarshalTypeError, as are bytes that are not JSON
UnmarshalFails(r) ==
    \/ ~r.wellFormed
    \/ r.doc.error.t \notin {"null", "obj"}
    \/ r.doc.license.t \notin {"null", "obj"}

Unmarshal(r) ==
    [Response |->
       [Status |-> r.doc.status,
        Error |-> DecodeAPIError(r.doc.error),
        License |-> DecodeLicense(r.doc.license),
        MusicFolders |-> [MusicFolder |-> r.doc.musicFolder],
        Indexes |-> [Index |-> [i \in 1 .. Len(r.doc.index) |-> DecodeIndex(r.doc.index[i])]],
        Directory |-> r.doc.directory,
        NowPlaying |-> r.doc.nowPlaying]]

HTTPError(u) == <<"gosubsonic: HTTP request failed: ", "net error", " - ">> \o u
\* mutant: the parse error does not name the URL
JSONErrorOmitsURL(u) == <<"gosubsonic: failed to parse response JSON: ", "json error">>

JSONError(u) == <<"gosubsonic: failed to parse response JSON: ", "json error", " - ">> \o u
RemoteError(e) == <<"gosubsonic: ", FormatInt(e.Code), ": ", e.Message>>

\* the dynamic type of an error value: time.Parse gives a *time.ParseError,
\* every other error of the package is made by errors.New or fmt.Errorf
ErrorType(e) ==
    IF e = NoErr THEN "nil"
    ELSE IF e[1] = "parsing time " THEN "*time.ParseError"
    ELSE "*errors.errorString"

fetchJSON(u, r) ==
    IF r.neterr THEN [res |-> NilPtr, err |-> HTTPError(u)]
    ELSE IF UnmarshalFails(r) THEN [res |-> NilPtr, err |-> JSONError(u)]
    ELSE IF Unmarshal(r).Response.Error # ZeroAPIError
         THEN [res |-> NilPtr, err |-> RemoteError(Unmarshal(r).Response.Error)]
         ELSE [res |-> Ptr(Unmarshal(r)), err |-> NoErr]

IsJSONContentType(ctype) == ctype \in {"application/json", "application/json; charset=utf-8"}

\* mutant: the body is handed out whatever the content type is
fetchBinaryUninspected(u, r) ==
    IF r.neterr THEN Ret(NilPtr, HTTPError(u))
    ELSE Ret(Ptr([body |-> r.media]), NoErr)

fetchBinary(u, r) ==
    IF r.neterr THEN Ret(NilPtr, HTTPError(u))
    ELSE IF IsJSONContentType(r.ctype)
         THEN IF UnmarshalFails(r) THEN Ret(NilPtr, JSONError(u))
              ELSE Ret(NilPtr, RemoteError(Unmarshal(r).Response.Error))
         ELSE Ret(Ptr([body |-> r.media]), NoErr)

\* the response body after fetchJSON: read whole, and closed by the deferred
\* Close on every return; there is no body when http.Get failed
fetchJSONBody(r) == IF r.neterr THEN "None" ELSE "Closed"

\* mutant: the JSON path of fetchBinary has no deferred Close
fetchBinaryBodyLeaks(r) == IF r.neterr THEN "None" ELSE "Open"

\* the response body after fetchBinary: closed by the deferred Close on the
\* JSON path, and otherwise returned open
fetchBinaryBody(r) ==
    IF r.neterr THEN "None"
    ELSE IF IsJSONContentType(r.ctype) THEN "Closed" ELSE "Open"

\* the response body after the operation op
ResponseBody(op, r) ==
    IF op \in {"Stream", "Download"} THEN fetchBinaryBody(r) ELSE fetchJSONBody(r)

(***************************************************************************)
(* The JSON operations.  Each takes the URL it requested and the           *)
(* transport's reply, and gives what the call returns.                     *)
(***************************************************************************)
Ping(u, r) ==
    LET f == fetchJSON(u, r)
    IN  IF f.err # NoErr THEN Ret(NilPtr, f.err)
        ELSE Ret(Ptr([Status |-> f.res.v.Response.Status]), NoErr)

\* New builds the client, pings once and hands back the client and Ping's error
New(host, username, password) ==
    [Host |-> host, Username |-> username, Password |-> password, made |-> TRUE]

\* mutant: Ping's error is dropped
NewResultDropsError(s, u, r) == Ret(Ptr(s), NoErr)

NewResult(s, u, r) == Ret(Ptr(s), Ping(u, r).err)

\* mutant: the parsed time is not stored in the License
GetLicenseKeepsZeroDate(u, r) ==
    LET f == fetchJSON(u, r)
    IN  IF f.err # NoErr THEN Ret(NilPtr, f.err)
        ELSE LET lic == f.res.v.Response.License
                 p == ParseTime(lic.DateRaw)
             IN  IF p.err # NoErr THEN Ret(NilPtr, p.err)
                 ELSE Ret(Ptr(lic), NoErr)

GetLicense(u, r) ==
    LET f == fetchJSON(u, r)
    IN  IF f.err # NoErr THEN Ret(NilPtr, f.err)
        ELSE LET lic == f.res.v.Response.License
                 p == ParseTime(lic.DateRaw)
             IN  IF p.err # NoErr THEN Ret(NilPtr, p.err)
                 ELSE Ret(Ptr([lic EXCEPT !.Date = p.t]), NoErr)

\* mutant: the single item is not appended to iface
OneOrManyDropsSingle(v) ==
    IF IsMap(v) THEN [ok |-> TRUE, iface |-> <<>>]
    ELSE IF IsSlice(v) THEN [ok |-> TRUE, iface |-> v.a]
    ELSE [ok |-> FALSE, iface |-> <<>>]

\* the type switch on a cardinality field: a map is one item, a slice is
\* its items, anything else (nil included) is the default case
OneOrMany(v) ==
    IF IsMap(v) THEN [ok |-> TRUE, iface |-> <<v>>]
    ELSE IF IsSlice(v) THEN [ok |-> TRUE, iface |-> v.a]
    ELSE [ok |-> FALSE, iface |-> <<>>]

ShapeError(method) == <<"gosubsonic: failed to parse ", method, " response">>

\* the loop over iface that builds MusicFolder / IndexArtist records;
\* m["id"].(float64) and m["name"].(string) abort the call when they fail
RECURSIVE BuildNamed(_, _)
BuildNamed(iface, acc) ==
    IF iface = <<>> THEN Ret(Slice(acc), NoErr)
    ELSE LET m == Head(iface)
         IN  IF ~IsMap(m) THEN BuildNamed(Tail(iface), acc)
             ELSE IF ~IsFloat64(Get(m, "id")) \/ ~IsString(Get(m, "name")) THEN Panic
             ELSE BuildNamed(Tail(iface),
                             Append(acc, [ID |-> Int64(Get(m, "id")),
                                          Name |-> Get(m, "name").s]))

GetMusicFolders(u, r) ==
    LET f == fetchJSON(u, r)
    IN  IF f.err # NoErr THEN Ret(NilSlice, f.err)
        ELSE LET sw == OneOrMany(f.res.v.Response.MusicFolders.MusicFolder)
             IN  IF ~sw.ok THEN Ret(NilSlice, ShapeError("getMusicFolders"))
                 ELSE BuildNamed(sw.iface, <<>>)

\* mutant: each Index is put in front of the ones built before it
RECURSIVE BuildIndexesReversed(_, _)
BuildIndexesReversed(raw, outIndex) ==
    IF raw = <<>> THEN Ret(Slice(outIndex), NoErr)
    ELSE LET index == Head(raw)
             sw == OneOrMany(index.ArtistRaw)
             artists == BuildNamed(sw.iface, <<>>)
         IN  IF ~sw.ok THEN Ret(NilSlice, ShapeError("getIndexes"))
             ELSE IF artists.panic THEN Panic
             ELSE BuildIndexesReversed(Tail(raw),
                                       << [Name |-> index.Name,
                                           ArtistRaw |-> JNull,
                                           Artist |-> artists.result] >> \o outIndex)

\* the loop over the raw Index structs
RECURSIVE BuildIndexes(_, _)
BuildIndexes(raw, outIndex) ==
    IF raw = <<>> THEN Ret(Slice(outIndex), NoErr)
    ELSE LET index == Head(raw)
             sw == OneOrMany(index.ArtistRaw)
             artists == BuildNamed(sw.iface, <<>>)
         IN  IF ~sw.ok THEN Ret(NilSlice, ShapeError("getIndexes"))
             ELSE IF artists.panic THEN Panic
             ELSE BuildIndexes(Tail(raw),
                               Append(outIndex, [Name |-> index.Name,
                                                 ArtistRaw |-> JNull,
                                                 Artist |-> artists.result]))

GetIndexes(u, r) ==
    LET f == fetchJSON(u, r)
    IN  IF f.err # NoErr THEN Ret(NilSlice, f.err)
        ELSE BuildIndexes(f.res.v.Response.Indexes.Index, <<>>)

GetIndexesURL(s, folderID, modified) ==
    makeURL(s, "getIndexes")
      \o (IF folderID >= 0 THEN <<"&musicFolderId=", FormatInt(folderID)>> ELSE <<>>)
      \o (IF modified >= 0 THEN <<"&ifModifiedSince=", FormatInt(modified)>> ELSE <<>>)

(***************************************************************************)
(* GetMusicDirectory.                                                      *)
(***************************************************************************)
\* mutant: the assertion holds for every decoded JSON object
IsMusicDirectoryContainerForMaps(v) == IsMap(v)

\* res.Response.Directory.(apiMusicDirectoryContainer): Directory is declared
\* interface{}, so json.Unmarshal stores nil, bool, float64, string,
\* []interface{} or map[string]interface{} in it, never the container struct
IsMusicDirectoryContainer(v) == FALSE

\* res.Response.NowPlaying.(apiNowPlayingContainer), in the same way
IsNowPlayingContainer(v) == FALSE

\* the switch on m["album"] of GetMusicDirectory
DirectoryAlbum(v) ==
    CASE v.t = "null" -> [ok |-> TRUE, s |-> ""]
      [] v.t = "str" -> [ok |-> TRUE, s |-> v.s]
      [] v.t = "num" -> [ok |-> TRUE, s |-> FormatInt(Int64(v))]
      [] OTHER -> [ok |-> FALSE, s |-> ""]

\* the switch on m["title"] of GetMusicDirectory, and on m["album"] of
\* GetNowPlaying: no nil case
StringOrNumber(v) ==
    CASE v.t = "str" -> [ok |-> TRUE, s |-> v.s]
      [] v.t = "num" -> [ok |-> TRUE, s |-> FormatInt(Int64(v))]
      [] OTHER -> [ok |-> FALSE, s |-> ""]

\* if x, ok := m[key].(float64); ok { field = int64(x) }
OptInt(m, key) == IF IsFloat64(Get(m, key)) THEN Int64(Get(m, key)) ELSE 0
\* if x, ok := m[key].(string); ok { field = x }
OptString(m, key) == IF IsString(Get(m, key)) THEN Get(m, key).s ELSE ""
\* b, ok := m[key].(bool); b && ok
Flag(m, key) == IsBool(Get(m, key)) /\ Get(m, key).b

AllFloat64(m, keys) == \A k \in keys : IsFloat64(Get(m, k))
AllString(m, keys) == \A k \in keys : IsString(Get(m, k))
AllBool(m, keys) == \A k \in keys : IsBool(Get(m, k))

ItemErr(e) == [k |-> "err", err |-> e]
ItemPanic == [k |-> "panic"]
ItemSkip == [k |-> "skip"]

AlbumTypeError(method) == <<"gosubsonic: unknown Album data type for ", method>>
TitleTypeError(method) == <<"gosubsonic: unknown Title data type for ", method>>

\* one pass of the loop body of GetMusicDirectory over a map m
DirectoryItem(m) ==
    LET album == DirectoryAlbum(Get(m, "album"))
        title == StringOrNumber(Get(m, "title"))
        coverArt == OptInt(m, "coverArt")
        created == ParseTime(Get(m, "created").s)
    IN  IF ~album.ok THEN ItemErr(AlbumTypeError("getMusicDirectory"))
        ELSE IF ~title.ok THEN ItemErr(TitleTypeError("getMusicDirectory"))
        ELSE IF ~IsString(Get(m, "created")) THEN ItemPanic
        ELSE IF created.err # NoErr THEN ItemErr(created.err)
        ELSE IF Flag(m, "isDir")
        THEN IF ~AllFloat64(m, {"id", "parent"}) \/ ~AllString(m, {"artist"})
             THEN ItemPanic
             ELSE [k |-> "dir",
                   v |-> [ID |-> Int64(Get(m, "id")), Album |-> album.s,
                          Artist |-> Get(m, "artist").s, CoverArt |-> coverArt,
                          Created |-> created.t, CreatedRaw |-> Get(m, "created").s,
                          Parent |-> Int64(Get(m, "parent")), Title |-> title.s]]
        ELSE IF Flag(m, "isVideo") THEN ItemSkip
        ELSE IF \/ ~AllFloat64(m, {"id", "duration", "parent"})
                \/ ~AllString(m, {"contentType", "path", "suffix", "type"})
                \/ ~AllBool(m, {"isVideo"})
             THEN ItemPanic
             ELSE [k |-> "media",
                   v |-> [ID |-> Int64(Get(m, "id")), Album |-> album.s,
                          ContentType |-> Get(m, "contentType").s,
                          CoverArt |-> coverArt, Created |-> created.t,
                          CreatedRaw |-> Get(m, "created").s,
                          DurationRaw |-> Int64(Get(m, "duration")),
                          IsVideo |-> Get(m, "isVideo").b,
                          Parent |-> Int64(Get(m, "parent")),
                          Path |-> Get(m, "path").s, Suffix |-> Get(m, "suffix").s,
                          Title |-> title.s, Type |-> Get(m, "type").s,
                          AlbumID |-> OptInt(m, "albumId"),
                          Artist |-> OptString(m, "artist"),
                          ArtistID |-> OptInt(m, "artistId"),
                          DiscNumber |-> OptInt(m, "discNumber"),
                          Genre |-> OptString(m, "genre"),
                          Track |-> OptInt(m, "track"), Year |-> OptInt(m, "year"),
                          TranscodedContentType |-> OptString(m, "transcodedContentType"),
                          TranscodedSuffix |-> OptString(m, "transcodedSuffix"),
                          Duration |-> ParseDuration(Int64(Get(m, "duration"))).d]]

RECURSIVE BuildContent(_, _, _)
BuildContent(iface, media, directories) ==
    IF iface = <<>>
    THEN Ret(Ptr([Media |-> Slice(media), Directories |-> Slice(directories)]), NoErr)
    ELSE LET m == Head(iface)
             it == DirectoryItem(m)
         IN  IF ~IsMap(m) THEN BuildContent(Tail(iface), media, directories)
             ELSE CASE it.k = "err" -> Ret(NilPtr, it.err)
                    [] it.k = "panic" -> Panic
                    [] it.k = "skip" -> BuildContent(Tail(iface), media, directories)
                    [] it.k = "dir" ->
                         BuildContent(Tail(iface), media, Append(directories, it.v))
                    [] it.k = "media" ->
                         BuildContent(Tail(iface), Append(media, it.v), directories)

\* &Content{}: both slices nil
EmptyContent == [Media |-> NilSlice, Directories |-> NilSlice]

GetMusicDirectory(u, r) ==
    LET f == fetchJSON(u, r)
    IN  IF f.err # NoErr THEN Ret(NilPtr, f.err)
        ELSE LET d == f.res.v.Response.Directory
                 sw == OneOrMany(Get(d, "child"))
             IN  IF ~IsMusicDirectoryContainer(d) THEN Ret(Ptr(EmptyContent), NoErr)
                 ELSE IF ~sw.ok THEN Ret(NilPtr, ShapeError("getMusicDirectory"))
                 ELSE BuildContent(sw.iface, <<>>, <<>>)

GetMusicDirectoryURL(s, folderID) ==
    makeURL(s, "getMusicDirectory") \o <<"&id=", FormatInt(folderID)>>

(***************************************************************************)
(* GetNowPlaying.                                                          *)
(***************************************************************************)
\* one pass of the loop body of GetNowPlaying over a map m
NowPlayingItem(m) ==
    LET album == StringOrNumber(Get(m, "album"))
        created == ParseTime(Get(m, "created").s)
    IN  IF \/ ~AllFloat64(m, {"id", "albumId", "artistId", "bitRate", "discNumber",
                              "duration", "minutesAgo", "parent", "playerId",
                              "size", "track", "year"})
           \/ ~AllString(m, {"artist", "contentType", "created", "genre", "path",
                             "suffix", "title"})
           \/ ~AllBool(m, {"isDir", "isVideo"})
        THEN ItemPanic
        ELSE IF ~album.ok THEN ItemErr(AlbumTypeError("getNowPlaying"))
        ELSE IF created.err # NoErr THEN ItemErr(created.err)
        ELSE [k |-> "entry",
              v |-> [ID |-> Int64(Get(m, "id")), AlbumID |-> Int64(Get(m, "albumId")),
                     Artist |-> Get(m, "artist").s,
                     ArtistID |-> Int64(Get(m, "artistId")),
                     BitRate |-> Int64(Get(m, "bitRate")),
                     ContentType |-> Get(m, "contentType").s,
                     CreatedRaw |-> Get(m, "created").s,
                     DiscNumber |-> Int64(Get(m, "discNumber")),
                     DurationRaw |-> Int64(Get(m, "duration")),
                     Genre |-> Get(m, "genre").s,
                     IsDir |-> Get(m, "isDir").b, IsVideo |-> Get(m, "isVideo").b,
                     MinutesAgo |-> Int64(Get(m, "minutesAgo")),
                     Parent |-> Int64(Get(m, "parent")), Path |-> Get(m, "path").s,
                     PlayerID |-> Int64(Get(m, "playerId")),
                     Size |-> Int64(Get(m, "size")), Suffix |-> Get(m, "suffix").s,
                     Title |-> Get(m, "title").s, Track |-> Int64(Get(m, "track")),
                     Year |-> Int64(Get(m, "year")),
                     Album |-> album.s, CoverArt |-> OptInt(m, "coverArt"),
                     Created |-> created.t,
                     Duration |-> ParseDuration(Int64(Get(m, "duration"))).d]]

RECURSIVE BuildNowPlaying(_, _)
BuildNowPlaying(iface, nowPlaying) ==
    IF iface = <<>> THEN Ret(Slice(nowPlaying), NoErr)
    ELSE LET m == Head(iface)
             it == NowPlayingItem(m)
         IN  IF ~IsMap(m) THEN BuildNowPlaying(Tail(iface), nowPlaying)
             ELSE CASE it.k = "err" -> Ret(NilSlice, it.err)
                    [] it.k = "panic" -> Panic
                    [] it.k = "entry" ->
                         BuildNowPlaying(Tail(iface), Append(nowPlaying, it.v))

\* mutant: the empty-string check is missing
NowPlayingIsStringNever(v) == FALSE

\* the check made before the container is used: NowPlaying.(string)
NowPlayingIsString(v) == IsString(v)

GetNowPlaying(u, r) ==
    LET f == fetchJSON(u, r)
    IN  IF f.err # NoErr THEN Ret(NilSlice, f.err)
        ELSE LET np == f.res.v.Response.NowPlaying
                 sw == OneOrMany(Get(np, "entry"))
             IN  IF NowPlayingIsString(np) THEN Ret(NilSlice, NoErr)
                 ELSE IF ~IsNowPlayingContainer(np) THEN Panic
                 ELSE IF ~sw.ok THEN Ret(NilSlice, ShapeError("getNowPlaying"))
                 ELSE BuildNowPlaying(sw.iface, <<>>)

(***************************************************************************)
(* Stream and Download.                                                    *)
(***************************************************************************)
NoOptions == [isNil |-> TRUE]

\* mutant: maxBitRate is sent for every MaxBitRate that is not negative
StreamURLSendsZeroBitRate(s, id, options) ==
    IF options.isNil
    THEN makeURL(s, "stream") \o <<"&id=", FormatInt(id)>>
    ELSE makeURL(s, "stream") \o <<"&id=", FormatInt(id)>>
           \o (IF options.v.MaxBitRate >= 0
               THEN <<"&maxBitRate=", FormatInt(options.v.MaxBitRate)>> ELSE <<>>)
           \o (IF options.v.Format # "" THEN <<"&format=", options.v.Format>> ELSE <<>>)
           \o (IF options.v.TimeOffset > 0
               THEN <<"&timeOffset=", FormatInt(options.v.TimeOffset)>> ELSE <<>>)
           \o (IF options.v.Size # "" THEN <<"&size=", options.v.Size>> ELSE <<>>)
           \o (IF options.v.EstimateContentLength
               THEN <<"&estimateContentLength=true">> ELSE <<>>)

StreamURL(s, id, options) ==
    IF options.isNil
    THEN makeURL(s, "stream") \o <<"&id=", FormatInt(id)>>
    ELSE makeURL(s, "stream") \o <<"&id=", FormatInt(id)>>
           \o (IF options.v.MaxBitRate > 0
               THEN <<"&maxBitRate=", FormatInt(options.v.MaxBitRate)>> ELSE <<>>)
           \o (IF options.v.Format # "" THEN <<"&format=", options.v.Format>> ELSE <<>>)
           \o (IF options.v.TimeOffset > 0
               THEN <<"&timeOffset=", FormatInt(options.v.TimeOffset)>> ELSE <<>>)
           \o (IF options.v.Size # "" THEN <<"&size=", options.v.Size>> ELSE <<>>)
           \o (IF options.v.EstimateContentLength
               THEN <<"&estimateContentLength=true">> ELSE <<>>)

Stream(u, r) == fetchBinary(u, r)

DownloadURL(s, id) == makeURL(s, "download") \o <<"&id=", FormatInt(id)>>

Download(u, r) == fetchBinary(u, r)

(***************************************************************************)
(* The inputs: arguments of the calls and replies of the server.           *)
(***************************************************************************)
Hosts == {"demo.subsonic.org", "__MOCK__"}
Usernames == {"guest"}
Passwords == {"secret"}

IDs == 0 .. MaxID
OptionalIDs == -1 .. MaxID

StreamOptionValues ==
    [MaxBitRate : {-1, 0, 128}, Format : {"", "mp3"}, TimeOffset : {0, 30},
     Size : {"", "640x480"}, EstimateContentLength : BOOLEAN]

SeqsUpTo(S, n) == UNION {[1 .. k -> S] : k \in 0 .. n}

\* an object from a sequence of <<key, value>> pairs
RECURSIVE Fields(_)
Fields(kv) ==
    IF kv = <<>> THEN <<>>
    ELSE (kv[1][1] :> kv[1][2]) @@ Fields(Tail(kv))
Obj(kv) == JObj(Fields(kv))
With(j, key, v) == JObj((key :> v) @@ j.o)
Without(j, key) == JObj([k \in (DOMAIN j.o) \ {key} |-> j.o[k]])

\* the "error" member
Error40 == Obj(<< <<"code", JNum(40)>>, <<"message", JStr("Wrong username or password")>> >>)
ErrorZero == Obj(<< <<"code", JNum(0)>>, <<"message", JStr("")>> >>)

\* status and error of an envelope
Envelopes ==
    { <<"ok", JNull>>, <<"failed", Error40>>, <<"failed", ErrorZero>>,
      <<"failed", JNull>>, <<"ok", Error40>>, <<"failed", JStr("oops")>> }

EmptyDoc ==
    [status |-> "ok", error |-> JNull, license |-> JNull, musicFolder |-> JNull,
     index |-> <<>>, directory |-> JNull, nowPlaying |-> JNull]

Doc(env, section, value) ==
    [[EmptyDoc EXCEPT !.status = env[1], !.error = env[2]] EXCEPT ![section] = value]

JSONReply(doc) ==
    [neterr |-> FALSE, ctype |-> "application/json", wellFormed |-> TRUE,
     doc |-> doc, media |-> ""]
MalformedReply ==
    [neterr |-> FALSE, ctype |-> "application/json", wellFormed |-> FALSE,
     doc |-> EmptyDoc, media |-> ""]
MediaReply ==
    [neterr |-> FALSE, ctype |-> "audio/mpeg", wellFormed |-> FALSE,
     doc |-> EmptyDoc, media |-> "mp3 bytes"]
NetErrReply ==
    [neterr |-> TRUE, ctype |-> "", wellFormed |-> FALSE, doc |-> EmptyDoc, media |-> ""]

\* values of a cardinality field: absent, scalars, one object, arrays
Scalars == {JNull, JStr(""), JNum(7)}
CardValues(objs, elems) ==
    Scalars \cup objs \cup {JArr(a) : a \in SeqsUpTo(elems, MaxItems)}

\* musicFolder
FolderMusic == Obj(<< <<"id", JNum(0)>>, <<"name", JStr("Music")>> >>)
FolderPodcasts == Obj(<< <<"id", JNum(1)>>, <<"name", JStr("Podcasts")>> >>)
FolderBadID == Obj(<< <<"id", JStr("2")>>, <<"name", JStr("Incoming")>> >>)
FolderObjects == {FolderMusic, FolderPodcasts, FolderBadID}
MusicFolderValues == CardValues(FolderObjects, FolderObjects \cup {JStr("x")})

\* indexes
ArtistAdventure == Obj(<< <<"id", JNum(1)>>, <<"name", JStr("Adventure")>> >>)
ArtistBoston == Obj(<< <<"id", JNum(2)>>, <<"name", JStr("Boston")>> >>)
ArtistNoID == Obj(<< <<"name", JStr("Nameless")>> >>)
ArtistObjects == {ArtistAdventure, ArtistBoston, ArtistNoID}
ArtistValues ==
    {JNull, JStr(""), JArr(<<JNum(5), ArtistBoston>>)} \cup ArtistObjects
      \cup {JArr(a) : a \in SeqsUpTo({ArtistAdventure, ArtistBoston}, MaxItems)}
IndexGroups ==
    {Obj(<< <<"name", JStr("A")>>, <<"artist", x>> >>) : x \in ArtistValues}
      \cup {Obj(<< <<"name", JStr("B")>>, <<"artist", ArtistBoston>> >>),
            Obj(<< <<"name", JStr("C")>> >>)}
\* the groups of the fixture
FixtureGroups ==
    {Obj(<< <<"name", JStr("A")>>, <<"artist", ArtistAdventure>> >>),
     Obj(<< <<"name", JStr("B")>>, <<"artist", ArtistBoston>> >>)}
\* any group, after groups of the fixture
IndexValues ==
    {<<>>} \cup {a \o <<g>> : a \in SeqsUpTo(FixtureGroups, MaxGroups - 1),
                              g \in IndexGroups}

\* license
LicenseValues ==
    {JNull, JStr("none")}
      \cup {Obj(<< <<"valid", JBool(v)>>, <<"email", JStr("mock@example.com")>>,
                   <<"date", JStr(d)>> >>) : v \in BOOLEAN, d \in TimeStrings}

\* directory: the child of the fixture, and variations of it
ChildAdventure ==
    Obj(<< <<"id", JNum(405)>>, <<"title", JStr("2008 - Adventure")>>,
           <<"created", JStr("2013-08-12T00:12:24")>>, <<"album", JStr("Adventure")>>,
           <<"parent", JNum(1)>>, <<"isDir", JBool(TRUE)>>,
           <<"artist", JStr("Adventure")>>, <<"coverArt", JNum(405)>> >>)
Child1984 ==
    Obj(<< <<"id", JNum(406)>>, <<"title", JNum(1984)>>,
           <<"created", JStr("2014-01-01T00:00:00")>>, <<"album", JNum(1984)>>,
           <<"parent", JNum(1)>>, <<"isDir", JBool(TRUE)>>,
           <<"artist", JStr("Van Halen")>> >>)
ChildSong ==
    Obj(<< <<"id", JNum(500)>>, <<"title", JStr("Rio")>>,
           <<"created", JStr("2013-08-12T00:12:24")>>, <<"album", JStr("Adventure")>>,
           <<"parent", JNum(405)>>, <<"isDir", JBool(FALSE)>>,
           <<"isVideo", JBool(FALSE)>>, <<"contentType", JStr("audio/mpeg")>>,
           <<"duration", JNum(180)>>, <<"path", JStr("Adventure/Rio.mp3")>>,
           <<"suffix", JStr("mp3")>>, <<"type", JStr("music")>>,
           <<"artist", JStr("Adventure")>>, <<"track", JNum(1)>> >>)
ChildVideo ==
    Obj(<< <<"id", JNum(600)>>, <<"title", JStr("Clip")>>,
           <<"created", JStr("2013-08-12T00:12:24")>>,
           <<"isDir", JBool(FALSE)>>, <<"isVideo", JBool(TRUE)>> >>)
ChildBadAlbum == With(ChildAdventure, "album", JBool(TRUE))
ChildBadCreated == With(ChildAdventure, "created", JStr("2013-08-12T00:12:24Z"))
ChildNoID == Without(ChildAdventure, "id")
ChildObjects ==
    {ChildAdventure, Child1984, ChildSong, ChildVideo, ChildBadAlbum,
     ChildBadCreated, ChildNoID}
ChildValues == CardValues(ChildObjects, ChildObjects \cup {JStr("x")})
DirectoryValues ==
    {JNull, JStr(""),
     Obj(<< <<"id", JNum(3)>>, <<"name", JStr("Adventure")>> >>)}
      \cup {Obj(<< <<"child", c>>, <<"id", JNum(3)>>, <<"name", JStr("Adventure")>> >>) :
              c \in ChildValues \ {JNull}}

\* nowPlaying
EntryRio ==
    Obj(<< <<"id", JNum(500)>>, <<"albumId", JNum(40)>>, <<"artist", JStr("Adventure")>>,
           <<"artistId", JNum(1)>>, <<"bitRate", JNum(320)>>,
           <<"contentType", JStr("audio/mpeg")>>,
           <<"created", JStr("2013-08-12T00:12:24")>>, <<"discNumber", JNum(1)>>,
           <<"duration", JNum(180)>>, <<"genre", JStr("Electronic")>>,
           <<"isDir", JBool(FALSE)>>, <<"isVideo", JBool(FALSE)>>,
           <<"minutesAgo", JNum(2)>>, <<"parent", JNum(405)>>,
           <<"path", JStr("Adventure/Rio.mp3")>>, <<"playerId", JNum(1)>>,
           <<"size", JNum(1000)>>, <<"suffix", JStr("mp3")>>, <<"title", JStr("Rio")>>,
           <<"track", JNum(1)>>, <<"year", JNum(2008)>>,
           <<"album", JStr("Adventure")>>, <<"username", JStr("guest")>> >>)
Entry1984 == With(With(EntryRio, "album", JNum(1984)), "id", JNum(501))
EntryNoAlbum == Without(EntryRio, "album")
EntryNoGenre == Without(EntryRio, "genre")
EntryObjects == {EntryRio, Entry1984, EntryNoAlbum, EntryNoGenre}
EntryValues == CardValues(EntryObjects, EntryObjects \cup {JStr("x")})
NowPlayingValues ==
    {JNull, JStr(""), JObj(<<>>)}
      \cup {Obj(<< <<"entry", e>> >>) : e \in EntryValues \ {JNull}}

\* the replies the transport can deliver to an operation
Section(op) ==
    CASE op = "GetLicense" -> "license"
      [] op = "GetMusicFolders" -> "musicFolder"
      [] op = "GetIndexes" -> "index"
      [] op = "GetMusicDirectory" -> "directory"
      [] op = "GetNowPlaying" -> "nowPlaying"

SectionValues(op) ==
    CASE op = "GetLicense" -> LicenseValues
      [] op = "GetMusicFolders" -> MusicFolderValues
      [] op = "GetIndexes" -> IndexValues
      [] op = "GetMusicDirectory" -> DirectoryValues
      [] op = "GetNowPlaying" -> NowPlayingValues

PingOps == {"New", "Ping"}
ListOps == {"GetMusicFolders", "GetIndexes", "GetMusicDirectory", "GetNowPlaying"}
JSONOps == PingOps \cup {"GetLicense"} \cup ListOps
BinaryOps == {"Stream", "Download"}

StatusReplies == {JSONReply(Doc(env, "status", env[1])) : env \in Envelopes}

Replies(op) ==
    IF op \in BinaryOps THEN {MediaReply, MalformedReply} \cup StatusReplies
    ELSE IF op \in PingOps THEN {MalformedReply} \cup StatusReplies
    ELSE {MalformedReply}
           \cup {JSONReply(Doc(env, Section(op), v)) :
                   env \in Envelopes, v \in SectionValues(op)}

(***************************************************************************)
(* The state machine.                                                      *)
(***************************************************************************)
Terminal == {"Succeeded", "Failed", "Panicked"}

\* a call can start when no call is running
CanCall == phase = "Idle"

Init ==
    /\ client = NoClient
    /\ opname = "none"
    /\ url = <<>>
    /\ phase = "Idle"
    /\ requests = 0
    /\ pingCalls = 0
    /\ reply = NoReply
    /\ outcome = NoOutcome
    /\ args = [none |-> TRUE]
    /\ built = NoBuilt
    /\ calls = NoCalls
    /\ mockData = NoMockData
    /\ body = "None"

\* the start of a call: the URL is built and http.Get is issued
Request(op, a, u, pings) ==
    /\ opname' = op
    /\ args' = a
    /\ url' = u
    /\ phase' = "Requesting"
    /\ requests' = 1
    /\ pingCalls' = pings
    /\ reply' = NoReply
    /\ outcome' = NoOutcome
    /\ body' = "None"
    /\ UNCHANGED <<built, calls, mockData>>

CallNew ==
    \E host \in Hosts, username \in Usernames, password \in Passwords :
        /\ CanCall
        /\ client' = New(host, username, password)
        /\ Request("New", [host |-> host, username |-> username, password |-> password],
                   makeURL(New(host, username, password), "ping"), 1)

CallPing ==
    /\ CanCall /\ client.made
    /\ Request("Ping", [none |-> TRUE], makeURL(client, "ping"), 1)
    /\ UNCHANGED client

CallGetLicense ==
    /\ CanCall /\ client.made
    /\ Request("GetLicense", [none |-> TRUE], makeURL(client, "getLicense"), 0)
    /\ UNCHANGED client

CallGetMusicFolders ==
    /\ CanCall /\ client.made
    /\ Request("GetMusicFolders", [none |-> TRUE], makeURL(client, "getMusicFolders"), 0)
    /\ UNCHANGED client

CallGetIndexes ==
    \E folderID \in OptionalIDs, modified \in OptionalIDs :
        /\ CanCall /\ client.made
        /\ Request("GetIndexes", [folderID |-> folderID, modified |-> modified],
                   GetIndexesURL(client, folderID, modified), 0)
        /\ UNCHANGED client

CallGetMusicDirectory ==
    \E folderID \in IDs :
        /\ CanCall /\ client.made
        /\ Request("GetMusicDirectory", [folderID |-> folderID],
                   GetMusicDirectoryURL(client, folderID), 0)
        /\ UNCHANGED client

CallGetNowPlaying ==
    /\ CanCall /\ client.made
    /\ Request("GetNowPlaying", [none |-> TRUE], makeURL(client, "getNowPlaying"), 0)
    /\ UNCHANGED client

CallStream ==
    \E id \in IDs, options \in {NoOptions} \cup {Ptr(o) : o \in StreamOptionValues} :
        /\ CanCall /\ client.made
        /\ Request("Stream", [id |-> id, options |-> options],
                   StreamURL(client, id, options), 0)
        /\ UNCHANGED client

CallDownload ==
    \E id \in IDs :
        /\ CanCall /\ client.made
        /\ Request("Download", [id |-> id], DownloadURL(client, id), 0)
        /\ UNCHANGED client

\* what the running operation returns for a reply
Run(op, s, u, r) ==
    CASE op = "New" -> NewResult(s, u, r)
      [] op = "Ping" -> Ping(u, r)
      [] op = "GetLicense" -> GetLicense(u, r)
      [] op = "GetMusicFolders" -> GetMusicFolders(u, r)
      [] op = "GetIndexes" -> GetIndexes(u, r)
      [] op = "GetMusicDirectory" -> GetMusicDirectory(u, r)
      [] op = "GetNowPlaying" -> GetNowPlaying(u, r)
      [] op = "Stream" -> Stream(u, r)
      [] op = "Download" -> Download(u, r)

PhaseOf(o) ==
    IF o.panic THEN "Panicked" ELSE IF o.err # NoErr THEN "Failed" ELSE "Succeeded"

Finish(r) ==
    /\ phase = "Requesting"
    /\ reply' = r
    /\ outcome' = Run(opname, client, url, r)
    /\ phase' = PhaseOf(Run(opname, client, url, r))
    /\ body' = ResponseBody(opname, r)
    /\ UNCHANGED <<client, opname, args, url, requests, pingCalls, built, calls,
                   mockData>>

\* the call returns to its caller; nothing of it is kept
Return ==
    /\ phase \in {"Succeeded", "Failed"}
    /\ phase' = "Idle"
    /\ opname' = "none"
    /\ args' = [none |-> TRUE]
    /\ url' = <<>>
    /\ requests' = 0
    /\ pingCalls' = 0
    /\ reply' = NoReply
    /\ outcome' = NoOutcome
    /\ body' = "None"
    /\ UNCHANGED <<client, built, calls, mockData>>

\* http.Get returns an error
HTTPGetFails == Finish(NetErrReply)

\* http.Get returns a response, and the handler runs to its end
HTTPGetReturns == phase = "Requesting" /\ \E r \in Replies(opname) : Finish(r)

Next ==
    \/ CallNew
    \/ CallPing
    \/ CallGetLicense
    \/ CallGetMusicFolders
    \/ CallGetIndexes
    \/ CallGetMusicDirectory
    \/ CallGetNowPlaying
    \/ CallStream
    \/ CallDownload
    \/ HTTPGetFails
    \/ HTTPGetReturns
    \/ Return

Spec == Init /\ [][Next]_vars

(***************************************************************************)
(* BuildSpec: the loop bodies of GetMusicDirectory and GetNowPlaying,      *)
(* applied to one decoded item: a behaviour is one pass of one loop.  The   *)
(* items are a well-formed item with one member removed or replaced.       *)
(***************************************************************************)
\* the members the loop body of GetMusicDirectory reads
ChildKeys ==
    {"album", "title", "coverArt", "created", "isDir", "id", "artist", "parent",
     "isVideo", "contentType", "duration", "path", "suffix", "type", "albumId",
     "artistId", "discNumber", "genre", "track", "year",
     "transcodedContentType", "transcodedSuffix"}

\* the members the loop body of GetNowPlaying reads
EntryKeys ==
    {"id", "albumId", "artist", "artistId", "bitRate", "contentType", "created",
     "discNumber", "duration", "genre", "isDir", "isVideo", "minutesAgo",
     "parent", "path", "playerId", "size", "suffix", "title", "track", "year",
     "album", "coverArt"}

\* the JSON values a member can hold
MemberValues ==
    {JNull, JBool(TRUE), JBool(FALSE), JNum(0), JNum(1984), JFrac(15),
     JFrac(19849), JFrac(-15), JStr(""), JStr("x"), JStr("2013-08-12T00:12:24Z")}

Variations(base, keys) ==
    {base} \cup {Without(base, k) : k \in keys}
           \cup {With(base, k, v) : k \in keys, v \in MemberValues}

ChildInputs ==
    UNION {Variations(b, ChildKeys) : b \in {ChildAdventure, ChildSong, ChildVideo}}
EntryInputs == Variations(EntryRio, EntryKeys)

BuildDirectoryItem ==
    \E m \in ChildInputs :
        /\ built = NoBuilt
        /\ built' = [method |-> "getMusicDirectory", m |-> m, it |-> DirectoryItem(m)]
        /\ UNCHANGED <<client, opname, args, url, phase, requests, pingCalls,
                       reply, outcome, calls, mockData, body>>

BuildNowPlayingItem ==
    \E m \in EntryInputs :
        /\ built = NoBuilt
        /\ built' = [method |-> "getNowPlaying", m |-> m, it |-> NowPlayingItem(m)]
        /\ UNCHANGED <<client, opname, args, url, phase, requests, pingCalls,
                       reply, outcome, calls, mockData, body>>

BuildNext ==
    \/ BuildDirectoryItem
    \/ BuildNowPlayingItem

BuildSpec == Init /\ [][BuildNext]_vars

(***************************************************************************)
(* ConcSpec: several callers use one constructed client at the same time.  *)
(* The methods have the value receiver (s Client): a call first copies the *)
(* client, then builds its URL from the copy and issues http.Get, then     *)
(* runs the rest of its handler on the reply.  A caller makes one call.    *)
(***************************************************************************)
Callers == 1 .. MaxCallers

\* the calls the callers make
ConcCalls ==
    { [op |-> "Ping", a |-> [none |-> TRUE]],
      [op |-> "GetLicense", a |-> [none |-> TRUE]],
      [op |-> "GetMusicFolders", a |-> [none |-> TRUE]],
      [op |-> "GetIndexes", a |-> [folderID |-> -1, modified |-> -1]],
      [op |-> "GetMusicDirectory", a |-> [folderID |-> 0]],
      [op |-> "GetNowPlaying", a |-> [none |-> TRUE]],
      [op |-> "Stream", a |-> [id |-> 0, options |-> NoOptions]],
      [op |-> "Download", a |-> [id |-> 0]] }

\* the URL an operation requests for its arguments, from its receiver s
CallURL(op, a, s) ==
    CASE op = "Ping" -> makeURL(s, "ping")
      [] op = "GetLicense" -> makeURL(s, "getLicense")
      [] op = "GetMusicFolders" -> makeURL(s, "getMusicFolders")
      [] op = "GetIndexes" -> GetIndexesURL(s, a.folderID, a.modified)
      [] op = "GetMusicDirectory" -> GetMusicDirectoryURL(s, a.folderID)
      [] op = "GetNowPlaying" -> makeURL(s, "getNowPlaying")
      [] op = "Stream" -> StreamURL(s, a.id, a.options)
      [] op = "Download" -> DownloadURL(s, a.id)

\* the response of the fixture, or of a server that has the item playing
FixtureReply(op) ==
    CASE op = "Ping" -> JSONReply(EmptyDoc)
      [] op = "GetLicense" ->
           JSONReply(Doc(<<"ok", JNull>>, "license",
                         Obj(<< <<"valid", JBool(TRUE)>>,
                                <<"email", JStr("mock@example.com")>>,
                                <<"date", JStr("2014-01-01T00:00:00")>> >>)))
      [] op = "GetMusicFolders" ->
           JSONReply(Doc(<<"ok", JNull>>, "musicFolder", FolderMusic))
      [] op = "GetIndexes" ->
           JSONReply(Doc(<<"ok", JNull>>, "index",
                         << Obj(<< <<"name", JStr("A")>>, <<"artist", ArtistAdventure>> >>),
                            Obj(<< <<"name", JStr("B")>>, <<"artist", ArtistBoston>> >>) >>))
      [] op = "GetMusicDirectory" ->
           JSONReply(Doc(<<"ok", JNull>>, "directory",
                         Obj(<< <<"child", ChildAdventure>>, <<"id", JNum(3)>>,
                                <<"name", JStr("Adventure")>> >>)))
      [] op = "GetNowPlaying" ->
           JSONReply(Doc(<<"ok", JNull>>, "nowPlaying", Obj(<< <<"entry", EntryRio>> >>)))
      [] op \in BinaryOps -> MediaReply

ConcReplies(op) ==
    {NetErrReply, FixtureReply(op), JSONReply(Doc(<<"failed", Error40>>, "status", "failed"))}

IdleCall ==
    [phase |-> "Idle", op |-> "none", a |-> [none |-> TRUE], s |-> NoClient,
     url |-> <<>>, reply |-> NoReply, outcome |-> NoOutcome]

ConcInit ==
    \E host \in Hosts, username \in Usernames, password \in Passwords :
        /\ client = New(host, username, password)
        /\ args = [host |-> host, username |-> username, password |-> password]
        /\ opname = "none"
        /\ url = <<>>
        /\ phase = "Idle"
        /\ requests = 0
        /\ pingCalls = 0
        /\ reply = NoReply
        /\ outcome = NoOutcome
        /\ built = NoBuilt
        /\ calls = [c \in Callers |-> IdleCall]
        /\ mockData = NoMockData
        /\ body = "None"

ConcUnchanged ==
    UNCHANGED <<client, opname, args, url, phase, requests, pingCalls, reply,
                outcome, built, mockData, body>>

\* mutant: the method has a pointer receiver and records the method it
\* runs in the client
ConcEnterWritesClient(c) ==
    \E call \in ConcCalls :
        /\ calls[c].phase = "Idle"
        /\ calls' = [calls EXCEPT ![c] = [@ EXCEPT !.phase = "Entered", !.op = call.op,
                                                   !.a = call.a, !.s = client]]
        /\ client' = [client EXCEPT !.Host = call.op]
        /\ UNCHANGED <<opname, args, url, phase, requests, pingCalls, reply,
                       outcome, built, mockData, body>>

\* caller c calls a method: the receiver s is a copy of the client
ConcEnter(c) ==
    \E call \in ConcCalls :
        /\ calls[c].phase = "Idle"
        /\ calls' = [calls EXCEPT ![c] = [@ EXCEPT !.phase = "Entered", !.op = call.op,
                                                   !.a = call.a, !.s = client]]
        /\ ConcUnchanged

\* the call of caller c builds its URL and issues http.Get
ConcRequest(c) ==
    /\ calls[c].phase = "Entered"
    /\ calls' = [calls EXCEPT ![c] =
                   [@ EXCEPT !.phase = "Requesting",
                             !.url = CallURL(calls[c].op, calls[c].a, calls[c].s)]]
    /\ ConcUnchanged

\* the transport answers caller c, and its handler runs to its end
ConcFinish(c) ==
    \E r \in ConcReplies(calls[c].op) :
        /\ calls' = [calls EXCEPT ![c] =
                       [@ EXCEPT !.phase = PhaseOf(Run(calls[c].op, calls[c].s,
                                                      calls[c].url, r)),
                                 !.reply = r,
                                 !.outcome = Run(calls[c].op, calls[c].s,
                                                 calls[c].url, r)]]
        /\ ConcUnchanged

ConcNext ==
    \E c \in Callers :
        \/ ConcEnter(c)
        \/ ConcRequest(c)
        \/ (calls[c].phase = "Requesting" /\ ConcFinish(c))

ConcSpec == ConcInit /\ [][ConcNext]_vars

(***************************************************************************)
(* MockSpec: mockInit, and the calls the tests make on the mock client.    *)
(***************************************************************************)
\* the methods of mockTable, with the response each entry holds
mockTable ==
    << [method |-> "ping", data |-> FixtureReply("Ping")],
       [method |-> "getLicense", data |-> FixtureReply("GetLicense")],
       [method |-> "getMusicFolders", data |-> FixtureReply("GetMusicFolders")],
       [method |-> "getIndexes", data |-> FixtureReply("GetIndexes")],
       [method |-> "getMusicDirectory", data |-> FixtureReply("GetMusicDirectory")] >>

\* a string literal of the source that holds a formatted number, as the
\* pieces that make the same string
Pieces(p) == IF p = "&id=1" THEN <<"&id=", "1">> ELSE <<p>>

\* the string a sequence of pieces concatenates to: two sequences are the
\* same Go string iff their Joins are equal
RECURSIVE Join(_)
Join(u) == IF u = <<>> THEN <<>> ELSE Pieces(Head(u)) \o Join(Tail(u))

\* mutant: no mock ID is added to the key of getMusicDirectory
mockKeyWithoutID(s, entry) == Join(makeURL(s, entry.method))

\* the key of an entry: s.makeURL(entry.method) + optStr
mockKey(s, entry) ==
    Join(makeURL(s, entry.method)
           \o (IF entry.method = "getMusicDirectory" THEN <<"&id=1">> ELSE <<>>))

\* the map mockInit stores in mockData
mockInit(s) ==
    [k \in {mockKey(s, mockTable[i]) : i \in DOMAIN mockTable} |->
       mockTable[CHOOSE i \in DOMAIN mockTable : mockKey(s, mockTable[i]) = k].data]

\* the calls of client_test.go
TestCalls ==
    { [op |-> "Ping", a |-> [none |-> TRUE]],
      [op |-> "GetLicense", a |-> [none |-> TRUE]],
      [op |-> "GetMusicFolders", a |-> [none |-> TRUE]],
      [op |-> "GetIndexes", a |-> [folderID |-> -1, modified |-> -1]],
      [op |-> "GetMusicDirectory", a |-> [folderID |-> 1]] }

\* the test has a client
MockInit ==
    \E host \in Hosts, username \in Usernames, password \in Passwords :
        /\ client = New(host, username, password)
        /\ opname = "none"
        /\ url = <<>>
        /\ phase = "Idle"
        /\ requests = 0
        /\ pingCalls = 0
        /\ reply = NoReply
        /\ outcome = NoOutcome
        /\ args = [none |-> TRUE]
        /\ built = NoBuilt
        /\ calls = NoCalls
        /\ mockData = NoMockData
        /\ body = "None"

CallMockInit ==
    /\ CanCall
    /\ mockData' = mockInit(client)
    /\ UNCHANGED <<client, opname, args, url, phase, requests, pingCalls, reply,
                   outcome, built, calls, body>>

\* a test calls an operation on the mock client
TestCall ==
    \E t \in TestCalls :
        /\ CanCall
        /\ mockData # NoMockData
        /\ Request(t.op, t.a, CallURL(t.op, t.a, client),
                   IF t.op = "Ping" THEN 1 ELSE 0)
        /\ UNCHANGED client

MockNext ==
    \/ CallMockInit
    \/ TestCall
    \/ HTTPGetFails
    \/ HTTPGetReturns
    \/ Return

MockSpec == MockInit /\ [][MockNext]_vars

(***************************************************************************)
(* Properties.                                                             *)
(***************************************************************************)
Done == phase \in Terminal

\* the reply was delivered, parsed, and treated as carrying no error
FetchOK == Done /\ fetchJSON(url, reply).err = NoErr

\* the reply was delivered and parsed
Decoded == Done /\ ~reply.neterr /\ ~UnmarshalFails(reply)

ResultLen == Len(outcome.result.elems)

\* C1: in every JSON operation, a decoded envelope that contains an error
\* object makes the call fail with that object's code and message and a nil
\* result, whatever else the response holds.
ErrorObjectFailsCall ==
    (Decoded /\ opname \in JSONOps \ {"New"} /\ IsMap(reply.doc.error))
        => /\ phase = "Failed"
           /\ outcome.result.isNil
           /\ outcome.err = << "gosubsonic: ",
                               FormatInt(Int64(Get(reply.doc.error, "code"))), ": ",
                               Get(reply.doc.error, "message").s >>

\* the items of directory.child of the delivered reply
ChildItems == OneOrMany(Get(reply.doc.directory, "child")).iface
IsDirChild(m) == IsMap(m) /\ Flag(m, "isDir")
DirChildren == SelectSeq(ChildItems, IsDirChild)
WellFormedChildren == {ChildAdventure, Child1984, ChildSong, ChildVideo}

\* C2: GetMusicDirectory, for a response without error whose children are
\* well formed and include isDir items, returns one Directory per isDir item,
\* in response order, with the item's id and artist.
DirectoriesReturned ==
    (/\ FetchOK /\ opname = "GetMusicDirectory"
     /\ IsMap(reply.doc.directory)
     /\ \A i \in 1 .. Len(ChildItems) : ChildItems[i] \in WellFormedChildren
     /\ DirChildren # <<>>)
        => /\ phase = "Succeeded"
           /\ ~outcome.result.isNil
           /\ Len(outcome.result.v.Directories.elems) = Len(DirChildren)
           /\ \A i \in 1 .. Len(DirChildren) :
                /\ outcome.result.v.Directories.elems[i].ID
                     = Int64(Get(DirChildren[i], "id"))
                /\ outcome.result.v.Directories.elems[i].Artist
                     = Get(DirChildren[i], "artist").s

\* C3: GetNowPlaying, for a response without error whose nowPlaying member
\* is the empty string, returns a sequence of length 0 and a nil error.
EmptyStringNowPlaying ==
    (FetchOK /\ opname = "GetNowPlaying" /\ reply.doc.nowPlaying = JStr(""))
        => /\ phase = "Succeeded"
           /\ outcome.err = NoErr
           /\ ResultLen = 0

EmptyStringNowPlayingReached ==
    /\ FetchOK /\ opname = "GetNowPlaying" /\ reply.doc.nowPlaying = JStr("")
    /\ phase = "Succeeded"

\* the replies that differ from r in one cardinality field, which holds the
\* array [o] where r holds the single object o
Wrap(o) == JArr(<<o>>)
WrapMember(j, key) == With(j, key, Wrap(Get(j, key)))
SingleToArray(op, r) ==
    CASE op = "GetMusicFolders" ->
           IF IsMap(r.doc.musicFolder)
           THEN {[r EXCEPT !.doc.musicFolder = Wrap(r.doc.musicFolder)]} ELSE {}
      [] op = "GetIndexes" ->
           {[r EXCEPT !.doc.index[i] = WrapMember(r.doc.index[i], "artist")] :
              i \in {j \in 1 .. Len(r.doc.index) : IsMap(Get(r.doc.index[j], "artist"))}}
      [] op = "GetMusicDirectory" ->
           IF IsMap(r.doc.directory) /\ IsMap(Get(r.doc.directory, "child"))
           THEN {[r EXCEPT !.doc.directory = WrapMember(r.doc.directory, "child")]}
           ELSE {}
      [] op = "GetNowPlaying" ->
           IF IsMap(r.doc.nowPlaying) /\ IsMap(Get(r.doc.nowPlaying, "entry"))
           THEN {[r EXCEPT !.doc.nowPlaying = WrapMember(r.doc.nowPlaying, "entry")]}
           ELSE {}

\* C4: a response whose cardinality field holds the single object o gives
\* the same result as the same response with the one-element array [o] there.
SingleEqualsOneElementArray ==
    (Done /\ opname \in ListOps /\ ~reply.neterr)
        => \A w \in SingleToArray(opname, reply) :
             Run(opname, client, url, w) = outcome

SingleObjectFolderReached ==
    /\ FetchOK /\ opname = "GetMusicFolders" /\ IsMap(reply.doc.musicFolder)
    /\ phase = "Succeeded" /\ ResultLen = 1

\* C5: a list field that is absent or null in a response without error
\* (musicFolder, the artist of every index group, entry) gives an empty
\* sequence and a nil error.
AbsentListIsEmpty ==
    /\ (FetchOK /\ opname = "GetMusicFolders" /\ reply.doc.musicFolder = JNull)
          => (phase = "Succeeded" /\ ResultLen = 0)
    /\ (/\ FetchOK /\ opname = "GetIndexes" /\ reply.doc.index # <<>>
        /\ \A i \in 1 .. Len(reply.doc.index) : Get(reply.doc.index[i], "artist") = JNull)
          => /\ phase = "Succeeded"
             /\ ResultLen = Len(reply.doc.index)
             /\ \A i \in 1 .. ResultLen : Len(outcome.result.elems[i].Artist.elems) = 0
    /\ (/\ FetchOK /\ opname = "GetNowPlaying" /\ IsMap(reply.doc.nowPlaying)
        /\ Get(reply.doc.nowPlaying, "entry") = JNull)
          => (phase = "Succeeded" /\ ResultLen = 0)

\* C6: GetMusicDirectory, for a response without error whose directory has
\* no child member, returns a Content with no Directories and no Media, and
\* a nil error.
NoChildIsEmptyContent ==
    (/\ FetchOK /\ opname = "GetMusicDirectory" /\ IsMap(reply.doc.directory)
     /\ "child" \notin DOMAIN reply.doc.directory.o)
        => /\ phase = "Succeeded"
           /\ outcome.err = NoErr
           /\ ~outcome.result.isNil
           /\ Len(outcome.result.v.Directories.elems) = 0
           /\ Len(outcome.result.v.Media.elems) = 0

NoChildReached ==
    /\ FetchOK /\ opname = "GetMusicDirectory" /\ IsMap(reply.doc.directory)
    /\ "child" \notin DOMAIN reply.doc.directory.o
    /\ phase = "Succeeded"

Has(u, piece) == \E i \in 1 .. Len(u) : u[i] = piece
ZeroStreamOptions ==
    [MaxBitRate |-> 0, Format |-> "", TimeOffset |-> 0, Size |-> "",
     EstimateContentLength |-> FALSE]
OptionSet(o) ==
    /\ ~o.isNil
    /\ \/ o.v.MaxBitRate > 0 \/ o.v.Format # "" \/ o.v.TimeOffset > 0
       \/ o.v.Size # "" \/ o.v.EstimateContentLength

\* C7: an optional query parameter is in the requested URL iff it is set,
\* and with none set the URL is the mandatory URL.
OptionalParamsIffSet ==
    /\ opname = "Stream" =>
         /\ Has(url, "&maxBitRate=")
              <=> (~args.options.isNil /\ args.options.v.MaxBitRate > 0)
         /\ Has(url, "&format=")
              <=> (~args.options.isNil /\ args.options.v.Format # "")
         /\ Has(url, "&timeOffset=")
              <=> (~args.options.isNil /\ args.options.v.TimeOffset > 0)
         /\ Has(url, "&size=")
              <=> (~args.options.isNil /\ args.options.v.Size # "")
         /\ Has(url, "&estimateContentLength=true")
              <=> (~args.options.isNil /\ args.options.v.EstimateContentLength)
         /\ ~OptionSet(args.options)
              => url = makeURL(client, "stream") \o <<"&id=", FormatInt(args.id)>>
         /\ StreamURL(client, args.id, NoOptions)
              = StreamURL(client, args.id, Ptr(ZeroStreamOptions))
    /\ opname = "GetIndexes" =>
         /\ Has(url, "&musicFolderId=") <=> args.folderID >= 0
         /\ Has(url, "&ifModifiedSince=") <=> args.modified >= 0
         /\ (args.folderID = -1 /\ args.modified = -1)
              => url = makeURL(client, "getIndexes")

UnsetOptionsRequested ==
    /\ opname = "Stream" /\ phase = "Requesting"
    /\ args.options = Ptr(ZeroStreamOptions)
    /\ Len(url) = Len(makeURL(client, "stream")) + 2

CallEndsSucceededOrFailed ==
    Done => /\ requests = 1
            /\ phase \in {"Succeeded", "Failed"}
            /\ phase = "Succeeded" <=> outcome.err = NoErr

\* the items of the list fields of the delivered reply
RECURSIVE ArtistItems(_)
ArtistItems(groups) ==
    IF groups = <<>> THEN <<>>
    ELSE OneOrMany(Get(Head(groups), "artist")).iface \o ArtistItems(Tail(groups))
ListItems ==
    CASE opname = "GetMusicFolders" -> OneOrMany(reply.doc.musicFolder).iface
      [] opname = "GetIndexes" -> ArtistItems(reply.doc.index)
      [] opname = "GetMusicDirectory" ->
           IF IsMap(reply.doc.directory) THEN ChildItems ELSE <<>>
      [] opname = "GetNowPlaying" ->
           IF IsMap(reply.doc.nowPlaying)
           THEN OneOrMany(Get(reply.doc.nowPlaying, "entry")).iface ELSE <<>>
\* items with a field of the wrong shape, an album of unknown type, or a
\* created timestamp that does not parse
BadItems ==
    {FolderBadID, ArtistNoID, ChildBadAlbum, ChildBadCreated, ChildNoID,
     EntryNoAlbum, EntryNoGenre}

\* C10: when an item of the list cannot be built, the call returns an error
\* and a nil result, with none of the items built before it.
FirstErrorNoPartial ==
    (/\ FetchOK /\ opname \in ListOps
     /\ \E i \in 1 .. Len(ListItems) : ListItems[i] \in BadItems)
        => (phase = "Failed" /\ outcome.result.isNil)

\* the replies that carry a logical remote error for the running operation
RemoteErrorReplies(op) ==
    {r \in Replies(op) :
       /\ ~UnmarshalFails(r)
       /\ Unmarshal(r).Response.Error # ZeroAPIError}

\* C11: a call that failed because the HTTP GET failed returns an error of a
\* different kind (dynamic type) than the error the same call returns for a
\* delivered response that carries an error object.
TransportAndRemoteKindsDiffer ==
    (Done /\ opname \in JSONOps \ {"New"} /\ reply.neterr)
        => /\ phase = "Failed"
           /\ \A r \in RemoteErrorReplies(opname) :
                ErrorType(Run(opname, client, url, r).err) # ErrorType(outcome.err)

EndsWith(e, u) ==
    /\ Len(e) >= Len(u)
    /\ SubSeq(e, Len(e) - Len(u) + 1, Len(e)) = u

\* C12: when the delivered bytes are not valid JSON, every JSON operation
\* fails with the parse error, whose text ends with the requested URL, and
\* returns no result decoded from the response.
MalformedJSONFails ==
    (Done /\ opname \in JSONOps /\ ~reply.neterr /\ ~reply.wellFormed)
        => /\ phase = "Failed"
           /\ outcome.err[1] = "gosubsonic: failed to parse response JSON: "
           /\ url # <<>> /\ EndsWith(outcome.err, url)
           /\ opname # "New" => outcome.result.isNil
           /\ opname = "New" => outcome.result = Ptr(client)

MalformedJSONReached ==
    /\ opname = "GetMusicFolders" /\ phase = "Failed"
    /\ reply = MalformedReply
    /\ EndsWith(outcome.err, makeURL(client, "getMusicFolders"))

IsRemoteError(e) ==
    \E x \in {Error40, ErrorZero} : e = RemoteError(DecodeAPIError(x))

\* C13: for every decoded response, an error is reported iff the status is
\* "failed": status "failed" never ends Succeeded, and status "ok" never
\* ends with a remote error.
ErrorIffStatusFailed ==
    (Decoded /\ opname \in JSONOps)
        => /\ reply.doc.status = "failed" => phase # "Succeeded"
           /\ reply.doc.status = "ok" => ~IsRemoteError(outcome.err)


\* the item that was built, and the records it can give
Built == built # NoBuilt
IsRecord(it) == it.k \in {"dir", "media", "entry"}
WellFormedItems(method) ==
    IF method = "getMusicDirectory" THEN {ChildAdventure, ChildSong} ELSE {EntryRio}
Builder(method, m) ==
    IF method = "getMusicDirectory" THEN DirectoryItem(m) ELSE NowPlayingItem(m)

\* the field of the record that holds a string-typed member
StringFields == {"album", "artist", "title"}
FieldOf(key) ==
    CASE key = "album" -> "Album" [] key = "artist" -> "Artist" [] key = "title" -> "Title"

\* the text the coercion rule gives for null and for a boolean
Coerced(v) ==
    CASE v = JNull -> "" [] v = JBool(TRUE) -> "True" [] v = JBool(FALSE) -> "False"

\* C14: an item whose album, artist or title is null or a boolean is built
\* into a record whose field is "" for null, "True" or "False" for a boolean.
NullAndBoolCoerced ==
    Built =>
      \A b \in WellFormedItems(built.method), key \in StringFields,
         v \in {JNull, JBool(TRUE), JBool(FALSE)} :
           built.m = With(b, key, v)
             => /\ IsRecord(built.it)
                /\ built.it.v[FieldOf(key)] = Coerced(v)

\* C15: an item whose album, artist or title is a number is built, in both
\* operations, into a record whose field is the integer string of the number.
NumericStringsUniform ==
    Built =>
      \A b \in WellFormedItems(built.method), key \in StringFields,
         v \in {JNum(0), JNum(1984)} :
           built.m = With(b, key, v)
             => /\ IsRecord(built.it)
                /\ built.it.v[FieldOf(key)] = FormatInt(Int64(v))

OptionalKeys ==
    {"coverArt", "track", "discNumber", "year", "genre", "transcodedContentType",
     "transcodedSuffix"}

\* C16: an item whose optional member is absent or of any other type is
\* still built into a record.
OptionalNeverFails ==
    Built =>
      \A b \in WellFormedItems(built.method), key \in OptionalKeys :
           built.m \in Variations(b, {key}) => IsRecord(built.it)

\* the value of an optional member that the record's zero value stands for
ZeroOf(key) == IF key = "genre" THEN JStr("") ELSE JNum(0)

\* C17: the record built from an item without coverArt, track, discNumber,
\* year or genre differs from the record built from the same item with that
\* member present and equal to 0 (the empty string for genre).
AbsentDiffersFromZero ==
    Built =>
      \A b \in WellFormedItems(built.method),
         key \in {"coverArt", "track", "discNumber", "year", "genre"} :
           (built.m = Without(b, key) /\ IsRecord(built.it))
             => built.it # Builder(built.method, With(b, key, ZeroOf(key)))


\* the instant written by "2013-08-12T00:12:24", with or without the Z
Aug12 == [Y |-> 2013, M |-> 8, D |-> 12, h |-> 0, m |-> 12, s |-> 24]

\* C18: GetLicense accepts the date "2013-08-12T00:12:24" with and without a
\* trailing Z, giving the same instant, and fails for a date in neither form.
TimestampWithOrWithoutZ ==
    (/\ FetchOK /\ opname = "GetLicense" /\ IsMap(reply.doc.license)
     /\ IsString(Get(reply.doc.license, "date")))
        => /\ Get(reply.doc.license, "date").s
                 \in {"2013-08-12T00:12:24", "2013-08-12T00:12:24Z"}
               => (phase = "Succeeded" /\ outcome.result.v.Date = Aug12)
           /\ Get(reply.doc.license, "date").s \in {"2013-08-12 00:12:24", ""}
               => phase = "Failed"

\* an item of musicFolder or of an index group's artist that lacks a
\* required member
LacksRequired(m) ==
    IsMap(m) /\ (~IsFloat64(Get(m, "id")) \/ ~IsString(Get(m, "name")))

\* C19: GetMusicFolders and GetIndexes, when an item has no id or name of
\* the required type, end Failed with an error and a nil result, and never
\* abort.
RequiredFieldFailsCall ==
    (/\ FetchOK /\ opname \in {"GetMusicFolders", "GetIndexes"}
     /\ \E i \in 1 .. Len(ListItems) : LacksRequired(ListItems[i]))
        => /\ ~outcome.panic
           /\ phase = "Failed"
           /\ outcome.err # NoErr
           /\ outcome.result.isNil


\* the client as New built it
Constructed == New(args.host, args.username, args.password)

\* C20: with several callers on one client, the client keeps the host,
\* username and password it was constructed with, and every finished call
\* has the outcome the same call has alone on that client for the same reply.
ConcurrentCallsIndependent ==
    calls # NoCalls
        => /\ client = Constructed
           /\ \A c \in Callers :
                calls[c].phase \in Terminal
                  => calls[c].outcome
                       = Run(calls[c].op, Constructed,
                             CallURL(calls[c].op, calls[c].a, Constructed),
                             calls[c].reply)

\* a call that finished while another call, entered before it, is in flight
CallsOverlapped ==
    /\ calls # NoCalls
    /\ calls[1].phase = "Requesting" /\ calls[1].op = "GetLicense"
    /\ calls[2].phase = "Failed" /\ calls[2].op = "Download"


\* code and message of the error member of the delivered envelope
EmbeddedCode == IF IsMap(reply.doc.error) THEN Int64(Get(reply.doc.error, "code")) ELSE 0
EmbeddedMessage == IF IsMap(reply.doc.error) THEN Get(reply.doc.error, "message").s ELSE ""

\* C21: Stream and Download return exactly one of handle and error; for a
\* delivered response of JSON content type they return no handle and the
\* error with the embedded code and message (the parse error when the body
\* does not decode); for any other content type they return the handle.
StreamInspectsResponse ==
    (Done /\ opname \in BinaryOps)
        => /\ outcome.result.isNil <=> outcome.err # NoErr
           /\ (~reply.neterr /\ reply.ctype = "application/json")
                => /\ phase = "Failed"
                   /\ outcome.result.isNil
                   /\ (reply.wellFormed /\ reply.doc.error.t \in {"null", "obj"})
                        => outcome.err = << "gosubsonic: ", FormatInt(EmbeddedCode),
                                            ": ", EmbeddedMessage >>
                   /\ ~(reply.wellFormed /\ reply.doc.error.t \in {"null", "obj"})
                        => outcome.err[1] = "gosubsonic: failed to parse response JSON: "
           /\ (~reply.neterr /\ reply.ctype # "application/json")
                => /\ phase = "Succeeded"
                   /\ outcome.result = Ptr([body |-> reply.media])

JSONOnStreamReached ==
    /\ opname = "Download" /\ phase = "Failed"
    /\ ~reply.neterr /\ reply.ctype = "application/json"
    /\ reply.doc.error = Error40
    /\ outcome.err = <<"gosubsonic: ", "40", ": ", "Wrong username or password">>


\* C22: once mockInit has run for the client, the URL of every call the
\* tests make on that client is a key of mockData, and so is the URL that a
\* running test call requested.
FixtureKeysInSync ==
    mockData # NoMockData
        => /\ \A t \in TestCalls : Join(CallURL(t.op, t.a, client)) \in DOMAIN mockData
           /\ phase = "Requesting" => Join(url) \in DOMAIN mockData
           /\ Cardinality(DOMAIN mockData) = Len(mockTable)

MockDirectoryRequested ==
    /\ mockData # NoMockData
    /\ phase = "Requesting" /\ opname = "GetMusicDirectory" /\ args.folderID = 1
    /\ mockData[Join(url)] = FixtureReply("GetMusicDirectory")


\* the artists of an index group of the reply, and what they are built into
GroupArtists(g) == OneOrMany(Get(g, "artist")).iface
WellFormedArtist(m) == IsMap(m) /\ IsFloat64(Get(m, "id")) /\ IsString(Get(m, "name"))
WellFormedGroup(g) ==
    /\ IsMap(Get(g, "artist")) \/ IsSlice(Get(g, "artist"))
    /\ \A i \in 1 .. Len(GroupArtists(g)) : WellFormedArtist(GroupArtists(g)[i])

\* C23: GetIndexes, for a response without error whose groups hold
\* well-formed artists, returns one Index per group in response order, with
\* the group's name, its artists in response order with id and name
\* unchanged, and a nil ArtistRaw.
IndexesKeepOrder ==
    (/\ FetchOK /\ opname = "GetIndexes"
     /\ \A i \in 1 .. Len(reply.doc.index) : WellFormedGroup(reply.doc.index[i]))
        => /\ phase = "Succeeded"
           /\ ResultLen = Len(reply.doc.index)
           /\ \A i \in 1 .. Len(reply.doc.index) :
                LET g == reply.doc.index[i]
                    x == outcome.result.elems[i]
                IN  /\ x.Name = Get(g, "name").s
                    /\ x.ArtistRaw = JNull
                    /\ Len(x.Artist.elems) = Len(GroupArtists(g))
                    /\ \A k \in 1 .. Len(GroupArtists(g)) :
                         /\ x.Artist.elems[k].ID * 10 = Get(GroupArtists(g)[k], "id").v10
                         /\ x.Artist.elems[k].Name = Get(GroupArtists(g)[k], "name").s

FixtureIndexesReturned ==
    /\ opname = "GetIndexes" /\ phase = "Succeeded"
    /\ reply = FixtureReply("GetIndexes")
    /\ ResultLen = 2
    /\ outcome.result.elems[1].Name = "A"
    /\ outcome.result.elems[1].Artist.elems[1].ID = 1
    /\ outcome.result.elems[2].Artist.elems[1].Name = "Boston"


\* the instant written by "2014-01-01T00:00:00", the date of the fixture
Jan1 == [Y |-> 2014, M |-> 1, D |-> 1, h |-> 0, m |-> 0, s |-> 0]

\* C24: GetLicense, for a response without error whose license date is
\* "2014-01-01T00:00:00" or "2013-08-12T00:12:24", returns the valid flag of
\* the response and a Date that is not the zero time and is the written
\* instant in UTC.
LicenseDateParsed ==
    (/\ FetchOK /\ opname = "GetLicense" /\ IsMap(reply.doc.license)
     /\ Get(reply.doc.license, "date")
          \in {JStr("2014-01-01T00:00:00"), JStr("2013-08-12T00:12:24")})
        => /\ phase = "Succeeded"
           /\ outcome.result.v.Valid = Get(reply.doc.license, "valid").b
           /\ outcome.result.v.Date # ZeroTime
           /\ outcome.result.v.Date
                = (IF Get(reply.doc.license, "date").s = "2014-01-01T00:00:00"
                   THEN Jan1 ELSE Aug12)

FixtureLicenseReturned ==
    /\ opname = "GetLicense" /\ phase = "Succeeded"
    /\ reply = FixtureReply("GetLicense")
    /\ outcome.result.v.Valid
    /\ outcome.result.v.Date = Jan1


Objects(a) == SelectSeq(a, IsMap)
HasNonObject(v) == IsSlice(v) /\ \E i \in 1 .. Len(v.a) : ~IsMap(v.a[i])
AllIn(a, S) == \A i \in 1 .. Len(a) : a[i] \in S

\* C26: an array of a cardinality field (musicFolder, the artist of an
\* index group, entry) that holds an element that is not an object gives
\* the records of its object elements, in their order, and a nil error.
NonObjectSkipped ==
    /\ (/\ FetchOK /\ opname = "GetMusicFolders" /\ HasNonObject(reply.doc.musicFolder)
        /\ AllIn(Objects(reply.doc.musicFolder.a), {FolderMusic, FolderPodcasts}))
          => /\ phase = "Succeeded"
             /\ ResultLen = Len(Objects(reply.doc.musicFolder.a))
             /\ \A i \in 1 .. ResultLen :
                  outcome.result.elems[i].Name
                    = Get(Objects(reply.doc.musicFolder.a)[i], "name").s
    /\ (/\ FetchOK /\ opname = "GetIndexes"
        /\ \E i \in 1 .. Len(reply.doc.index) :
             HasNonObject(Get(reply.doc.index[i], "artist"))
        /\ \A i \in 1 .. Len(reply.doc.index) :
             /\ IsMap(Get(reply.doc.index[i], "artist"))
                  \/ IsSlice(Get(reply.doc.index[i], "artist"))
             /\ AllIn(Objects(GroupArtists(reply.doc.index[i])),
                      {ArtistAdventure, ArtistBoston}))
          => /\ phase = "Succeeded"
             /\ ResultLen = Len(reply.doc.index)
             /\ \A i \in 1 .. ResultLen :
                  LET objs == Objects(GroupArtists(reply.doc.index[i]))
                      got == outcome.result.elems[i].Artist.elems
                  IN  /\ Len(got) = Len(objs)
                      /\ \A k \in 1 .. Len(objs) : got[k].Name = Get(objs[k], "name").s
    /\ (/\ FetchOK /\ opname = "GetNowPlaying" /\ IsMap(reply.doc.nowPlaying)
        /\ HasNonObject(Get(reply.doc.nowPlaying, "entry"))
        /\ AllIn(Objects(Get(reply.doc.nowPlaying, "entry").a), {EntryRio, Entry1984}))
          => /\ phase = "Succeeded"
             /\ ResultLen = Len(Objects(Get(reply.doc.nowPlaying, "entry").a))
             /\ \A i \in 1 .. ResultLen :
                  outcome.result.elems[i].ID * 10
                    = Get(Objects(Get(reply.doc.nowPlaying, "entry").a)[i], "id").v10

IsScalar(v) == v.t \in {"str", "num", "bool"}

\* C27: a cardinality field (musicFolder, the artist of an index group, the
\* child of a directory) that holds a string, a number or a boolean makes
\* the operation return a nil result and the error "gosubsonic: failed to
\* parse <method> response".
ScalarIsShapeError ==
    /\ (FetchOK /\ opname = "GetMusicFolders" /\ IsScalar(reply.doc.musicFolder))
          => /\ phase = "Failed" /\ outcome.result.isNil
             /\ outcome.err = <<"gosubsonic: failed to parse ", "getMusicFolders", " response">>
    /\ (/\ FetchOK /\ opname = "GetIndexes"
        /\ \E i \in 1 .. Len(reply.doc.index) : IsScalar(Get(reply.doc.index[i], "artist"))
        /\ \A i \in 1 .. Len(reply.doc.index) :
             IsScalar(Get(reply.doc.index[i], "artist")) \/ WellFormedGroup(reply.doc.index[i]))
          => /\ phase = "Failed" /\ outcome.result.isNil
             /\ outcome.err = <<"gosubsonic: failed to parse ", "getIndexes", " response">>
    /\ (/\ FetchOK /\ opname = "GetMusicDirectory" /\ IsMap(reply.doc.directory)
        /\ IsScalar(Get(reply.doc.directory, "child")))
          => /\ phase = "Failed" /\ outcome.result.isNil
             /\ outcome.err = <<"gosubsonic: failed to parse ", "getMusicDirectory", " response">>


\* the members that the loop bodies coerce from a number
CoercedKeys(method) ==
    IF method = "getMusicDirectory" THEN {"album", "title"} ELSE {"album"}

\* numbers, in tenths, and the base-10 text of their integer part
NumberTexts ==
    { <<0, "0">>, <<19840, "1984">>, <<19849, "1984">>, <<15, "1">>, <<-15, "-1">> }

EntryItems == OneOrMany(Get(reply.doc.nowPlaying, "entry")).iface

\* C29: GetNowPlaying, for a response without error whose nowPlaying is an
\* object whose entry holds N >= 1 well-formed entries (one object or an
\* array), returns N records in response order and a nil error, each with
\* the Duration of its duration member in seconds.
NowPlayingReturned ==
    (/\ FetchOK /\ opname = "GetNowPlaying" /\ IsMap(reply.doc.nowPlaying)
     /\ EntryItems # <<>>
     /\ AllIn(EntryItems, {EntryRio, Entry1984}))
        => /\ phase = "Succeeded"
           /\ outcome.err = NoErr
           /\ ResultLen = Len(EntryItems)
           /\ \A i \in 1 .. Len(EntryItems) :
                /\ outcome.result.elems[i].ID * 10 = Get(EntryItems[i], "id").v10
                /\ outcome.result.elems[i].Duration * 10
                     = Get(EntryItems[i], "duration").v10 * MillisPerSecond

\* the stream handle that Stream or Download returned
HandleReturned == opname \in BinaryOps /\ ~outcome.panic /\ ~outcome.result.isNil

\* C30: after a call that obtained a response, the body is either closed or
\* returned open as the stream handle, and never both: fetchJSON closes it,
\* fetchBinary closes it for a JSON content type and otherwise returns it.
BodyClosedOrReturned ==
    Done
        => /\ reply.neterr => (body = "None" /\ ~HandleReturned)
           /\ ~reply.neterr
                => /\ body \in {"Closed", "Open"}
                   /\ body = "Open" <=> HandleReturned
                   /\ opname \in JSONOps => body = "Closed"
                   /\ (opname \in BinaryOps /\ reply.ctype = "application/json")
                        => body = "Closed"
                   /\ (opname \in BinaryOps /\ reply.ctype # "application/json")
                        => body = "Open"

OpenBodyReturned ==
    /\ opname = "Stream" /\ phase = "Succeeded"
    /\ body = "Open" /\ outcome.result = Ptr([body |-> "mp3 bytes"])

====
